---- MODULE Spec2Model ----
(***************************************************************************)
(* A model of SentenceViewer (search/web_app/response_processors.py): the  *)
(* batch renderer process_sent_json, the per-sentence sweep of             *)
(* process_sentence with its helpers, and the match-offset extractor       *)
(* retrieve_highlighted_words.                                             *)
(*                                                                         *)
(* Python strings are sequences of one-character strings, so that          *)
(* replacing, slicing, formatting and parsing are computed, not assumed.   *)
(* A Python dict with optional keys is a record with a field "keys" that   *)
(* holds the keys present.                                                 *)
(***************************************************************************)
EXTENDS Integers, Sequences, FiniteSets, TLC

(***************************************************************************)
(* Bounds of the input families.                                           *)
(***************************************************************************)
MaxLen == 3
MaxSpans == 2
MaxFrags == 2
MaxTextLen == 3
MaxRawLen == 2
MaxWf == 1
MaxPath == 2
MaxHits == 2
MaxTotal == 1

(***************************************************************************)
(* String helpers.                                                         *)
(***************************************************************************)
NL == "\n"

RECURSIVE Concat(_)
Concat(ss) ==
  IF Len(ss) = 0 THEN << >>
  ELSE IF Len(ss) = 1 THEN ss[1]
  ELSE LET m == Len(ss) \div 2
       IN Concat(SubSeq(ss, 1, m)) \o Concat(SubSeq(ss, m + 1, Len(ss)))

RECURSIVE Join(_, _)
Join(sep, ss) ==
  IF ss = << >> THEN << >>
  ELSE IF Len(ss) = 1 THEN Head(ss)
  ELSE Head(ss) \o sep \o Join(sep, Tail(ss))

(* str.replace for a one-character old *)
Replace(s, old, new) ==
  Concat([k \in 1..Len(s) |-> IF s[k] = old THEN new ELSE <<s[k]>>])

Slice(s, a, b) == SubSeq(s, a + 1, IF b < Len(s) THEN b ELSE Len(s))

DigitChars == <<"0","1","2","3","4","5","6","7","8","9">>

IsDigit(c) == \E d \in 1..10 : DigitChars[d] = c

DigitVal(c) == (CHOOSE d \in 1..10 : DigitChars[d] = c) - 1

RECURSIVE Str(_)
Str(n) ==
  IF n < 0 THEN <<"-">> \o Str(0 - n)
  ELSE IF n < 10 THEN <<DigitChars[n + 1]>>
  ELSE Str(n \div 10) \o <<DigitChars[(n % 10) + 1]>>

RECURSIVE ParseInt(_)
ParseInt(s) == IF Len(s) = 1 THEN DigitVal(s[1])
          ELSE 10 * ParseInt(SubSeq(s, 1, Len(s) - 1)) + DigitVal(s[Len(s)])

AllDigits(s) == Len(s) > 0 /\ \A k \in 1..Len(s) : IsDigit(s[k])

None == 0 - 1

rxWordNo(iStr) ==
  IF \E k \in 3..(Len(iStr) - 1) :
        /\ iStr[1] = "w"
        /\ iStr[k] = "_"
        /\ AllDigits(SubSeq(iStr, 2, k - 1))
        /\ AllDigits(SubSeq(iStr, k + 1, Len(iStr)))
  THEN LET k == CHOOSE k \in 3..(Len(iStr) - 1) :
                   /\ iStr[1] = "w"
                   /\ iStr[k] = "_"
                   /\ AllDigits(SubSeq(iStr, 2, k - 1))
                   /\ AllDigits(SubSeq(iStr, k + 1, Len(iStr)))
       IN ParseInt(SubSeq(iStr, k + 1, Len(iStr)))
  ELSE None

rxQueryWord(k) == Len(k) >= 2 /\ k[1] = "w" /\ AllDigits(Tail(k))

WordNo(numSent, iWord) == <<"w">> \o Str(numSent) \o <<"_">> \o Str(iWord)

smatch == <<"s","m","a","t","c","h">>

(***************************************************************************)
(* Escaping for an attribute value: the chain of replace calls.            *)
(***************************************************************************)
EscapeAttrAmp(s) ==
  Replace(Replace(Replace(Replace(s, "&", <<"&","a","m","p",";">>), "\"", <<"&","q","u","o","t",";">>), "<", <<"&","l","t",";">>), ">", <<"&","g","t",";">>)

EscapeAttr(s) ==
  Replace(Replace(Replace(s, "\"", <<"&","q","u","o","t",";">>), "<", <<"&","l","t",";">>), ">", <<"&","g","t",";">>)

(***************************************************************************)
(* The popup builder.  An analysis is a function from field names to       *)
(* values [list, v]: a string is [list |-> FALSE, v |-> <<s>>], a list of  *)
(* strings is [list |-> TRUE, v |-> <<s1, ..., sn>>].                      *)
(***************************************************************************)
SortedFields == <<<<"g","r",".","c","a","s","e">>, <<"g","r",".","p","o","s">>, <<"l","e","x">>, <<"t","r","a","n","s","_","e","n">>>>

InAna(ana, f) == f \in DOMAIN ana

build_ana_div(ana) ==
  LET IsOther(f) == InAna(ana, f) /\ f # <<"l","e","x">> /\ f # <<"g","r",".","p","o","s">>
      others == SelectSeq(SortedFields, IsOther)
      Field(f) == <<"<","s","p","a","n"," ","c","l","a","s","s","=","\"","p","o","p","u","p","_","f","i","e","l","d","\"",">">> \o f \o <<":"," ","<","s","p","a","n"," ","c","l","a","s","s","=","\"","p","o","p","u","p","_","v","a","l","u","e","\"",">">>
                  \o (IF ana[f].list THEN Join(<<","," ">>, ana[f].v) ELSE ana[f].v[1])
                  \o <<"<","/","s","p","a","n",">","<","/","s","p","a","n",">">>
  IN (IF InAna(ana, <<"l","e","x">>)
        THEN <<"<","s","p","a","n"," ","c","l","a","s","s","=","\"","p","o","p","u","p","_","l","e","x","\"",">">> \o ana[<<"l","e","x">>].v[1] \o <<"<","/","s","p","a","n",">"," ">> ELSE << >>)
     \o (IF InAna(ana, <<"g","r",".","p","o","s">>)
           THEN <<"<","s","p","a","n"," ","c","l","a","s","s","=","\"","p","o","p","u","p","_","p","o","s","\"",">">> \o ana[<<"g","r",".","p","o","s">>].v[1] \o <<"<","/","s","p","a","n",">"," ">> ELSE << >>)
     \o Concat([k \in 1..Len(others) |-> Field(others[k])])

build_ana_popup(word, matchingAnalyses) ==
  LET Ana(iAna) ==
        <<"<","d","i","v"," ","c","l","a","s","s","=","\"","p","o","p","u","p","_","a","n","a">>
        \o (IF (iAna - 1) \in matchingAnalyses THEN <<" ","p","o","p","u","p","_","m","a","t","c","h">> ELSE << >>)
        \o <<"\"",">">>
        \o (IF Len(word.ana) > 1 THEN Str(iAna) \o <<"."," ">> ELSE << >>)
        \o build_ana_div(word.ana[iAna])
        \o <<"<","/","d","i","v",">">>
  IN <<"<","d","i","v"," ","c","l","a","s","s","=","\"","p","o","p","u","p","_","w","o","r","d","\"",">">>
     \o (IF "wf" \in word.keys
           THEN <<"<","s","p","a","n"," ","c","l","a","s","s","=","\"","p","o","p","u","p","_","w","f","\"",">">> \o word.wf \o <<"<","/","s","p","a","n",">">> ELSE << >>)
     \o (IF "ana" \in word.keys
           THEN Concat([iAna \in 1..Len(word.ana) |-> Ana(iAna)]) ELSE << >>)
     \o <<"<","/","d","i","v",">">>

(* indexes is the set curWords in the order the interpreter iterates it *)
RECURSIVE RawPopups(_, _, _)
RawPopups(words, indexes, matchWordOffsets) ==
  IF indexes = << >> THEN << >>
  ELSE LET iStr == Head(indexes)
           i == rxWordNo(iStr)
           rest == RawPopups(words, Tail(indexes), matchWordOffsets)
       IN IF i = None \/ i < 0 \/ i >= Len(words) THEN rest
          ELSE IF words[i + 1].wtype # <<"w","o","r","d">> THEN rest
          ELSE build_ana_popup(words[i + 1],
                 IF iStr \in DOMAIN matchWordOffsets
                   THEN {offAna[2] : offAna \in matchWordOffsets[iStr]}
                   ELSE {}) \o rest

prepare_analyses(words, indexes, matchWordOffsets) ==
  EscapeAttr(RawPopups(words, indexes, matchWordOffsets))

(***************************************************************************)
(* Dictionaries offset -> set of ids (offStarts, offEnds) and              *)
(* id -> set of pairs (the match-offset map).                              *)
(***************************************************************************)
EmptyDict == << >>

Put(f, k, v) == [x \in (DOMAIN f) \cup {k} |-> IF x = k THEN v ELSE f[x]]

AddTo(f, k, id) == IF k \in DOMAIN f THEN [f EXCEPT ![k] = @ \cup {id}]
                   ELSE Put(f, k, {id})

MergeOffsets(offsets, newOffsets) ==
  [k \in (DOMAIN offsets) \cup (DOMAIN newOffsets) |->
     (IF k \in DOMAIN offsets THEN offsets[k] ELSE {})
     \cup (IF k \in DOMAIN newOffsets THEN newOffsets[k] ELSE {})]

(***************************************************************************)
(* The output text is a sequence of pieces: a character of the sentence,   *)
(* a newline marker ("br" for <br>, "newline" for the empty newline span), *)
(* the close tag of a wrapper, or the open tag of a wrapper built by       *)
(* build_span.                                                             *)
(***************************************************************************)
Piece(t, c) == [t |-> t, c |-> c, words |-> << >>, cls |-> << >>, ana |-> << >>]

CloseTag == Piece("close", "")

highlightClass(nWord, matchWordOffsets) ==
  IF nWord \in DOMAIN matchWordOffsets
    THEN {<<"w","m","a","t","c","h">>} \cup {<<"w","m","a","t","c","h","_">> \o anaOff[1] : anaOff \in matchWordOffsets[nWord]}
    ELSE {}

(* curWords is the set's iteration order *)
build_span(sentSrc, curWords, matchWordOffsets) ==
  [t |-> "open", c |-> "",
   words |-> curWords,
   cls |-> [wn \in {curWords[k] : k \in 1..Len(curWords)} |->
              highlightClass(wn, matchWordOffsets)],
   ana |-> EscapeAttr(prepare_analyses(sentSrc.words, curWords, matchWordOffsets))]

(***************************************************************************)
(* add_highlighted_offsets: one pass over the highlighter's text.          *)
(***************************************************************************)
EmOpen == <<"<","e","m",">">>

EmClose == <<"<","/","e","m",">">>

HlScanEndShort(text) == Len(text) - 5

(* range(len(text) - 4): the scan visits 0 .. HlScanEnd(text) - 1 *)
HlScanEnd(text) == Len(text) - 4

HlStep(st, text, i) ==
  IF text[i + 1] # "<" THEN st
  ELSE IF Slice(text, i, i + 4) = EmOpen
    THEN [st EXCEPT !.offStarts = AddTo(@, i - st.indexSubtr, smatch),
                    !.indexSubtr = @ + 4]
  ELSE IF Slice(text, i, i + 5) = EmClose
    THEN [st EXCEPT !.offEnds = AddTo(@, i - st.indexSubtr, smatch),
                    !.indexSubtr = @ + 5]
  ELSE st

RECURSIVE HlScan(_, _, _)
HlScan(st, text, i) ==
  IF i >= HlScanEnd(text) THEN st ELSE HlScan(HlStep(st, text, i), text, i + 1)

add_highlighted_offsets(offStarts, offEnds, text) ==
  HlScan([offStarts |-> offStarts, offEnds |-> offEnds, indexSubtr |-> 0], text, 0)

(***************************************************************************)
(* The sweep of process_sentence, one character at a time.                 *)
(***************************************************************************)
NewlineMarker(text, i) ==
  IF i = 0 \/ i = Len(text) - 1 \/ (\A j \in (i + 1)..(Len(text) - 1) : text[j + 1] = NL)
    THEN Piece("newline", "")
    ELSE Piece("br", "")

CharPiece(text, i) ==
  IF text[i + 1] = NL THEN NewlineMarker(text, i) ELSE Piece("char", text[i + 1])

HasEvent(offStarts, offEnds, i) == i \in DOMAIN offStarts \/ i \in DOMAIN offEnds

(* lines 225-228: the ids that end at i leave curWords (when it is not empty) *)
ClosedWords(curWords, offEnds, i) ==
  IF curWords # {} /\ i \in DOMAIN offEnds THEN curWords \ offEnds[i] ELSE curWords

(* lines 229-232 *)
OpenedWords(curWords, offStarts, i) ==
  IF i \in DOMAIN offStarts THEN curWords \cup offStarts[i] ELSE curWords

NextWords(curWords, offStarts, offEnds, i) ==
  OpenedWords(ClosedWords(curWords, offEnds, i), offStarts, i)

Orders(S) == {o \in [1..Cardinality(S) -> S] : \A a, b \in 1..Cardinality(S) : a # b => o[a] # o[b]}

EmitTagOnly(addition, ch) == IF addition # << >> THEN addition ELSE <<ch>>

(* line 235: chars[i] = addition + chars[i] *)
Emit(addition, ch) == addition \o <<ch>>

NoForceClose(curWords) == << >>

(* lines 236-237 *)
ForceClose(curWords) == IF curWords # {} THEN <<CloseTag>> ELSE << >>

(***************************************************************************)
(* The result tree explored by retrieve_highlighted_words.  A node is      *)
(* [kind, s, n, items]: kind "dict" with items a sequence of <<key, node>>,*)
(* kind "list" with items a sequence of <<empty key, node>>, kind "str"    *)
(* with value s, kind "int" with value n, or kind "none".                  *)
(***************************************************************************)
StrNode(s) == [kind |-> "str", s |-> s, n |-> 0, items |-> << >>]

IntNode(n) == [kind |-> "int", s |-> << >>, n |-> n, items |-> << >>]

NoneNode == [kind |-> "none", s |-> << >>, n |-> 0, items |-> << >>]

DictNode(items) == [kind |-> "dict", s |-> << >>, n |-> 0, items |-> items]

ListNode(nodes) ==
  [kind |-> "list", s |-> << >>, n |-> 0,
   items |-> [k \in 1..Len(nodes) |-> << << >>, nodes[k] >>]]

IsSubstr(sub, s) ==
  \E a \in 1..(Len(s) - Len(sub) + 1) : SubSeq(s, a, a + Len(sub) - 1) = sub

HasKey(node, k) == \E j \in 1..Len(node.items) : node.items[j][1] = k

Get(node, k) == node.items[CHOOSE j \in 1..Len(node.items) : node.items[j][1] = k][2]

(* Python's "k in x": "yes", "no", or "TypeError" when x is not a container *)
Contains(node, k) ==
  CASE node.kind = "dict" -> IF HasKey(node, k) THEN "yes" ELSE "no"
    [] node.kind = "list" ->
         IF \E j \in 1..Len(node.items) : node.items[j][2] = StrNode(k)
           THEN "yes" ELSE "no"
    [] node.kind = "str" -> IF IsSubstr(k, node.s) THEN "yes" ELSE "no"
    [] OTHER -> "TypeError"

(* str(x) of a scalar *)
StrOf(node) ==
  CASE node.kind = "int" -> Str(node.n)
    [] node.kind = "str" -> node.s
    [] node.kind = "none" -> <<"N","o","n","e">>
    [] node.kind = "list" -> <<"[","]">>
    [] OTHER -> <<"{","}">>

Hashable(node) == node.kind \in {"int", "str", "none"}

(* the analysis index kept in a pair: an integer, or None for any other value *)
AnaOffsetOf(node) == IF node.kind = "int" THEN node.n ELSE None

Ok(offsets) == [err |-> "", offsets |-> offsets]

Raise(e) == [err |-> e, offsets |-> EmptyDict]

(* lines 298-302: the analysis offset of a matched word, or the error raised *)
NestedAnaOffset(sentence) ==
  IF ~HasKey(sentence, <<"_","n","e","s","t","e","d">>) THEN [err |-> "", ana |-> None]
  ELSE LET nested == Get(sentence, <<"_","n","e","s","t","e","d">>)
           c == Contains(nested, <<"f","i","e","l","d">>)
       IN IF c = "TypeError" THEN [err |-> "TypeError", ana |-> None]
          ELSE IF c = "no" THEN [err |-> "", ana |-> None]
          ELSE IF nested.kind # "dict" THEN [err |-> "TypeError", ana |-> None]
          ELSE IF Get(nested, <<"f","i","e","l","d">>) # StrNode(<<"a","n","a">>) THEN [err |-> "", ana |-> None]
          ELSE IF ~HasKey(nested, <<"o","f","f","s","e","t">>) THEN [err |-> "KeyError", ana |-> None]
          ELSE IF ~Hashable(Get(nested, <<"o","f","f","s","e","t">>)) THEN [err |-> "TypeError", ana |-> None]
          ELSE [err |-> "", ana |-> AnaOffsetOf(Get(nested, <<"o","f","f","s","e","t">>))]

(* lines 291-304 *)
WordMatch(sentence, numSent, queryWordID) ==
  IF ~HasKey(sentence, <<"o","f","f","s","e","t">>) THEN Ok(EmptyDict)
  ELSE LET wordOffset == <<"w">> \o Str(numSent) \o <<"_">> \o StrOf(Get(sentence, <<"o","f","f","s","e","t">>))
           qid == IF queryWordID = << >> THEN <<"w","0">> ELSE queryWordID
           a == NestedAnaOffset(sentence)
       IN IF a.err # "" THEN Raise(a.err)
          ELSE Ok(Put(EmptyDict, wordOffset, {<<qid, a.ana>>}))

ScopeOfKeyLeaky(queryWordID, k) ==
  IF rxQueryWord(k) /\ queryWordID = << >> THEN [skip |-> FALSE, id |-> k]
  ELSE [skip |-> FALSE, id |-> queryWordID]

(* lines 306-311: the term scope under key k, or skip the subtree *)
ScopeOfKey(queryWordID, k) ==
  IF rxQueryWord(k)
    THEN IF Len(queryWordID) > 0 /\ queryWordID # k
           THEN [skip |-> TRUE, id |-> queryWordID]
           ELSE IF Len(queryWordID) <= 0 THEN [skip |-> FALSE, id |-> k]
           ELSE [skip |-> FALSE, id |-> queryWordID]
    ELSE [skip |-> FALSE, id |-> queryWordID]

RECURSIVE retrieve_highlighted_words(_, _, _)
RECURSIVE RetrieveItems(_, _, _, _, _)
(* the loops of lines 280-288 and 305-318 over items j .. end *)
RetrieveItems(sentence, numSent, queryWordID, j, offsets) ==
  IF j > Len(sentence.items) THEN Ok(offsets)
  ELSE LET k == sentence.items[j][1]
           v == sentence.items[j][2]
           scope == IF sentence.kind = "dict" THEN ScopeOfKey(queryWordID, k)
                    ELSE [skip |-> FALSE, id |-> queryWordID]
       IN IF scope.skip \/ v.kind \notin {"dict", "list"}
            THEN RetrieveItems(sentence, numSent, queryWordID, j + 1, offsets)
            ELSE LET r == retrieve_highlighted_words(v, numSent, scope.id)
                 IN IF r.err # "" THEN r
                    ELSE RetrieveItems(sentence, numSent, queryWordID, j + 1,
                                       MergeOffsets(offsets, r.offsets))

retrieve_highlighted_words(sentence, numSent, queryWordID) ==
  LET c == Contains(sentence, <<"i","n","n","e","r","_","h","i","t","s">>)
  IN IF c = "TypeError" THEN Raise("TypeError")
     ELSE IF c = "yes"
       THEN IF sentence.kind = "dict"
              THEN retrieve_highlighted_words(Get(sentence, <<"i","n","n","e","r","_","h","i","t","s">>), numSent, queryWordID)
              ELSE Raise("TypeError")
     ELSE IF sentence.kind = "list"
       THEN RetrieveItems(sentence, numSent, queryWordID, 1, EmptyDict)
     ELSE IF sentence.kind = "dict"
       THEN IF HasKey(sentence, <<"f","i","e","l","d">>) /\ Get(sentence, <<"f","i","e","l","d">>) = StrNode(<<"w","o","r","d","s">>)
              THEN WordMatch(sentence, numSent, queryWordID)
              ELSE RetrieveItems(sentence, numSent, queryWordID, 1, EmptyDict)
     ELSE Ok(EmptyDict)

(***************************************************************************)
(* The state: the backend response being rendered, the search client's     *)
(* document store, the batch result under construction and the locals of   *)
(* the sentence being processed.                                           *)
(***************************************************************************)
VARIABLES response, sc, pc, err, result, iHit, lang, header, matchWordOffsets,
          offStarts, offEnds, iWord, curWords, i, chars

vars == <<response, sc, pc, err, result, iHit, lang, header, matchWordOffsets,
          offStarts, offEnds, iWord, curWords, i, chars>>

(* settings['languages'] *)
languages == <<<<"l","a","n","g","0">>, <<"l","a","n","g","1">>>>

Hits == response.hits.hits

CurHit == Hits[iHit + 1]

NothingFound ==
  [keys |-> {"n_occurrences", "n_sentences", "n_docs", "page", "message"},
   n_occurrences |-> 0, n_sentences |-> 0, n_docs |-> 0, page |-> 1,
   message |-> "Nothing found.", contexts |-> << >>]

NoLocals ==
  /\ lang' = << >>
  /\ header' = << >>
  /\ matchWordOffsets' = EmptyDict
  /\ offStarts' = EmptyDict
  /\ offEnds' = EmptyDict
  /\ iWord' = 0
  /\ curWords' = {}
  /\ i' = 0
  /\ chars' = << >>

RaiseAt(e, where) ==
  /\ pc' = "raised"
  /\ err' = [type |-> e, at |-> where]
  /\ UNCHANGED <<response, sc, result, iHit>>
  /\ NoLocals

(* lines 321-331 *)
ProcessSentJson ==
  /\ pc = "start"
  /\ IF "hits" \notin response.keys \/ "total" \notin response.hits.keys
       THEN /\ result' = NothingFound
            /\ pc' = "done"
            /\ UNCHANGED <<response, sc, err, iHit>>
            /\ NoLocals
       ELSE IF "hits" \notin response.hits.keys
         THEN RaiseAt("KeyError", "process_sent_json")
         ELSE /\ result' = [NothingFound EXCEPT
                              !.message = "",
                              !.n_sentences = response.hits.total,
                              !.keys = @ \cup {"contexts"},
                              !.n_docs = IF "aggregations" \in response.keys
                                           THEN response.n_docs ELSE 0]
              /\ pc' = "loop"
              /\ UNCHANGED <<response, sc, err, iHit>>
              /\ NoLocals

(* lines 129-164, for a store whose documents carry at most a title and    *)
(* settings['viewable_meta'] == []                                         *)
process_sentence_header(sentSource) ==
  LET meta == sc[sentSource.doc_id]
      result0 == <<"<","s","p","a","n"," ","c","l","a","s","s","=","\"","c","o","n","t","e","x","t","_","h","e","a","d","e","r","\""," ","d","a","t","a","-","m","e","t","a","=","\"","\"",">">>
  IN IF meta.kind \in {"none", "nohits"} THEN result0 \o <<"<","/","s","p","a","n",">">>
     ELSE IF meta.kind = "nosource" THEN result0 \o <<"<","/","s","p","a","n",">">>
     ELSE result0
          \o (IF meta.kind = "titled"
                THEN <<"<","s","p","a","n"," ","c","l","a","s","s","=","\"","c","h","_","t","i","t","l","e","\"",">">> \o meta.title \o <<"<","/","s","p","a","n",">">>
                ELSE <<"<","s","p","a","n"," ","c","l","a","s","s","=","\"","c","h","_","t","i","t","l","e","\"",">","-","<","/","s","p","a","n",">">>)
          \o <<"<","/","s","p","a","n",">">>

(* the tree retrieve_highlighted_words walks when given the hit: the hit's *)
(* own mapping.  Without inner_hits the walk goes through _source and      *)
(* highlight, which hold no mapping with 'field' == 'words' and no key     *)
(* w<digits>, and finds nothing.                                           *)
HitNode(s) ==
  IF "inner_hits" \in s.keys THEN DictNode(<< <<<<"i","n","n","e","r","_","h","i","t","s">>, s.inner_hits>> >>)
  ELSE DictNode(<< >>)

(* lines 183-191 *)
HighlightedText(s) ==
  IF "highlight" \in s.keys /\ "text" \in s.highlight.keys
    THEN IF s.highlight.list
           THEN IF Len(s.highlight.v) > 0 THEN s.highlight.v[1] ELSE s.source.text
           ELSE s.highlight.v[1]
    ELSE s.source.text

RawPieces(text) == [k \in 1..Len(text) |-> Piece("char", text[k])]

Context(full, hdr, lng, text, rel) ==
  [full |-> full, header |-> hdr, lang |-> lng, text |-> text, relations_satisfied |-> rel]

(* line 339, and the next iteration of the loop of line 332 *)
AppendContext(ctx) ==
  /\ result' = [result EXCEPT !.contexts = Append(@, ctx)]
  /\ iHit' = iHit + 1
  /\ pc' = "loop"
  /\ UNCHANGED <<response, sc, err>>
  /\ NoLocals

(* lines 333-338 and, inside process_sentence, 173-196 *)
HitStart ==
  /\ pc = "loop"
  /\ iHit < Len(Hits)
  /\ LET s == CurHit
         sSource == s.source
         r == retrieve_highlighted_words(HitNode(s), iHit, << >>)
         lng == languages[sSource.lang + 1]
         hl == add_highlighted_offsets(EmptyDict, EmptyDict, HighlightedText(s))
     IN IF "_source" \notin s.keys \/ "lang" \notin sSource.keys
          THEN RaiseAt("KeyError", "process_sent_json")
        ELSE IF sSource.lang < 0 \/ sSource.lang >= Len(languages)
          THEN RaiseAt("IndexError", "process_sent_json")
        ELSE IF r.err # ""
          THEN RaiseAt(r.err, "retrieve_highlighted_words")
        ELSE IF "text" \notin sSource.keys \/ Len(sSource.text) <= 0
          THEN AppendContext(Context(FALSE, << >>, lng, << >>, TRUE))
        ELSE IF "doc_id" \notin sSource.keys
          THEN RaiseAt("KeyError", "process_sentence_header")
        ELSE IF "words" \notin sSource.keys
          THEN AppendContext(Context(FALSE, << >>, lng, RawPieces(HighlightedText(s)), TRUE))
        ELSE /\ lang' = lng
             /\ header' = process_sentence_header(sSource)
             /\ matchWordOffsets' = r.offsets
             /\ offStarts' = hl.offStarts
             /\ offEnds' = hl.offEnds
             /\ chars' = [k \in 1..Len(sSource.text) |-> <<Piece("char", sSource.text[k])>>]
             /\ curWords' = {}
             /\ iWord' = 0
             /\ i' = 0
             /\ pc' = IF Len(sSource.words) > 0 THEN "words" ELSE "sweep"
             /\ UNCHANGED <<response, sc, err, result, iHit>>

(* lines 197-212: one iteration *)
WordStep ==
  /\ pc = "words"
  /\ LET word == CurHit.source.words[iWord + 1]
         wn == WordNo(iHit, iWord)
         skip == \/ "wtype" \notin word.keys
                 \/ word.wtype # <<"w","o","r","d">>
                 \/ "off_start" \notin word.keys
                 \/ "off_end" \notin word.keys
     IN /\ offStarts' = IF skip THEN offStarts ELSE AddTo(offStarts, word.off_start, wn)
        /\ offEnds' = IF skip THEN offEnds ELSE AddTo(offEnds, word.off_end, wn)
  /\ iWord' = iWord + 1
  /\ pc' = IF iWord + 1 < Len(CurHit.source.words) THEN "words" ELSE "sweep"
  /\ UNCHANGED <<response, sc, err, result, iHit, lang, header, matchWordOffsets,
                 curWords, i, chars>>

(* lines 214-235: one iteration *)
SweepStep ==
  /\ pc = "sweep"
  /\ LET sSource == CurHit.source
         ch == CharPiece(sSource.text, i)
         closing == IF curWords # {} THEN <<CloseTag>> ELSE << >>
         newWords == NextWords(curWords, offStarts, offEnds, i)
         newWord == i \in DOMAIN offStarts
     IN IF ~HasEvent(offStarts, offEnds, i)
          THEN /\ chars' = [chars EXCEPT ![i + 1] = <<ch>>]
               /\ curWords' = curWords
          ELSE \E order \in Orders(newWords) :
                 /\ curWords' = newWords
                 /\ chars' = [chars EXCEPT ![i + 1] =
                       Emit(closing
                            \o (IF newWords # {} /\ (closing # << >> \/ newWord)
                                  THEN <<build_span(sSource, order, matchWordOffsets)>>
                                  ELSE << >>),
                            ch)]
  /\ i' = i + 1
  /\ pc' = IF i + 1 < Len(CurHit.source.text) THEN "sweep" ELSE "close"
  /\ UNCHANGED <<response, sc, err, result, iHit, lang, header, matchWordOffsets,
                 offStarts, offEnds, iWord>>

(* lines 236-242 and 339 *)
SentenceEnd ==
  /\ pc = "close"
  /\ LET s == CurHit
         text == Concat(chars) \o ForceClose(curWords)
         relationsSatisfied ==
           ~("relations_satisfied" \in s.keys /\ ~s.relations_satisfied)
     IN AppendContext(Context(TRUE, header, lang, text, relationsSatisfied))

(* line 340 *)
Return ==
  /\ pc = "loop"
  /\ iHit >= Len(Hits)
  /\ pc' = "done"
  /\ UNCHANGED <<response, sc, err, result, iHit, lang, header, matchWordOffsets,
                 offStarts, offEnds, iWord, curWords, i, chars>>

Next == ProcessSentJson \/ HitStart \/ WordStep \/ SweepStep \/ SentenceEnd \/ Return

(***************************************************************************)
(* Input families.  A response is what the backend returns: the hit list,  *)
(* each hit with its _source (text and token table), the highlighter's     *)
(* copy of the text and the inner_hits tree.                               *)
(***************************************************************************)
Texts(alphabet, maxLen) == UNION {[1..n -> alphabet] : n \in 1..maxLen}

Spans(L) == {sp \in (0..L) \X (0..L) : sp[1] <= sp[2]}

SpanLeq(a, b) == a[1] < b[1] \/ (a[1] = b[1] /\ a[2] <= b[2])

(* token tables list the tokens in the order of the text *)
SpanSeqs(L, maxN) ==
  UNION {{q \in [1..n -> Spans(L)] : \A k \in 1..(n - 1) : SpanLeq(q[k], q[k + 1])}
         : n \in 0..maxN}

(* non-nested fragments, left to right *)
FragLists(L, maxN, withEmpty) ==
  UNION {{q \in [1..n -> Spans(L)] :
            /\ \A k \in 1..(n - 1) : q[k][2] <= q[k + 1][1]
            /\ withEmpty \/ \A k \in 1..n : q[k][1] < q[k][2]}
         : n \in 0..maxN}

Insert(text, pos, marker) ==
  SubSeq(text, 1, pos) \o marker \o SubSeq(text, pos + 1, Len(text))

(* the highlighter's copy of text: <em> ... </em> around every fragment *)
RECURSIVE Mark(_, _)
Mark(text, frags) ==
  IF frags = << >> THEN text
  ELSE LET f == frags[Len(frags)]
       IN Mark(Insert(Insert(text, f[2], EmClose), f[1], EmOpen),
               SubSeq(frags, 1, Len(frags) - 1))

Word(wtype, offStart, offEnd) ==
  [keys |-> {"wtype", "off_start", "off_end"}, wtype |-> wtype,
   off_start |-> offStart, off_end |-> offEnd, wf |-> << >>, ana |-> << >>]

WordsOf(spans) == [k \in 1..Len(spans) |-> Word(<<"w","o","r","d">>, spans[k][1], spans[k][2])]

Source(text, words) ==
  [keys |-> {"lang", "doc_id", "text", "words"}, lang |-> 0, doc_id |-> 0,
   text |-> text, words |-> words]

NoTree == [present |-> FALSE, node |-> NoneNode]

Tree(node) == [present |-> TRUE, node |-> node]

(* highlighted = << >>: the hit has no highlight *)
Hit(source, highlighted, tree) ==
  [keys |-> {"_source"}
            \cup (IF highlighted # << >> THEN {"highlight"} ELSE {})
            \cup (IF tree.present THEN {"inner_hits"} ELSE {}),
   source |-> source,
   highlight |-> [keys |-> {"text"}, list |-> TRUE, v |-> highlighted],
   inner_hits |-> tree.node,
   relations_satisfied |-> TRUE]

Response(hits) ==
  [keys |-> {"hits", "aggregations"},
   hits |-> [keys |-> {"total", "hits"}, total |-> Len(hits), hits |-> hits],
   n_docs |-> 1]

Doc(kind, title) == [kind |-> kind, title |-> title]

Store == [d \in 0..1 |-> IF d = 0 THEN Doc("titled", <<"T">>) ELSE Doc("none", << >>)]

(* a matched word as the backend reports it: the _nested path of the hit *)
Leaf(offset, anaOffset) ==
  DictNode(<< <<<<"f","i","e","l","d">>, StrNode(<<"w","o","r","d","s">>)>>, <<<<"o","f","f","s","e","t">>, IntNode(offset)>> >>
           \o (IF anaOffset = None THEN << >>
                ELSE << <<<<"_","n","e","s","t","e","d">>, DictNode(<< <<<<"f","i","e","l","d">>, StrNode(<<"a","n","a">>)>>,
                                                 <<<<"o","f","f","s","e","t">>, IntNode(anaOffset)>> >>)>> >>))

(* inner_hits: {term: {'hits': {'hits': [{'_nested': leaf}, ...]}}} *)
TermHits(leaves) ==
  DictNode(<< <<<<"h","i","t","s">>, DictNode(<< <<<<"h","i","t","s">>,
     ListNode([k \in 1..Len(leaves) |-> DictNode(<< <<<<"_","n","e","s","t","e","d">>, leaves[k]>> >>)])>> >>)>> >>)

MatchTrees ==
  {NoTree,
   Tree(DictNode(<< <<<<"w","0">>, TermHits(<<Leaf(0, 0)>>)>>,
                    <<<<"w","1">>, TermHits(<<Leaf(0, None), Leaf(1, None)>>)>> >>))}

InitWith(resp) ==
  /\ response = resp
  /\ sc = Store
  /\ pc = "start"
  /\ err = [type |-> "", at |-> ""]
  /\ result = NothingFound
  /\ iHit = 0
  /\ lang = << >>
  /\ header = << >>
  /\ matchWordOffsets = EmptyDict
  /\ offStarts = EmptyDict
  /\ offEnds = EmptyDict
  /\ iWord = 0
  /\ curWords = {}
  /\ i = 0
  /\ chars = << >>

Plain(n) == [k \in 1..n |-> "a"]

(* one sentence: a token table and at most one highlighted fragment over a *)
(* text, MaxSpans spans in all                                             *)
Init ==
  \E L \in 1..MaxLen :
    \E spans \in SpanSeqs(L, MaxSpans) :
      \E frags \in FragLists(L, IF Len(spans) < MaxSpans THEN 1 ELSE 0, FALSE) :
        \E tree \in MatchTrees :
          InitWith(Response(<<Hit(Source(Plain(L), WordsOf(spans)),
                                  IF frags = << >> THEN << >> ELSE <<Mark(Plain(L), frags)>>,
                                  tree)>>))

Spec == Init /\ [][Next]_vars

(* one sentence whose text has newlines *)
InitText ==
  \E text \in Texts({"a", NL}, MaxTextLen) :
    \E spans \in SpanSeqs(Len(text), 1) :
      \E frags \in FragLists(Len(text), 1, FALSE) :
        InitWith(Response(<<Hit(Source(text, WordsOf(spans)),
                                IF frags = << >> THEN << >> ELSE <<Mark(text, frags)>>,
                                NoTree)>>))

SpecText == InitText /\ [][Next]_vars

(* one sentence with up to MaxFrags highlighted fragments, empty ones too *)
InitHighlight ==
  \E text \in Texts({"a", "<"}, MaxRawLen) :
    \E frags \in FragLists(Len(text), MaxFrags, TRUE) :
      InitWith(Response(<<Hit(Source(text, WordsOf(<< <<0, 1>> >>)),
                              <<Mark(text, frags)>>, NoTree)>>))

SpecHighlight == InitHighlight /\ [][Next]_vars

(* one sentence whose words carry a word form and analyses with the        *)
(* characters the attribute escapes                                        *)
EscChars == {"\"", "<", ">", "&", "a"}

Str1(s) == [list |-> FALSE, v |-> <<s>>]

Ana1 == (<<"l","e","x">> :> Str1(<<"l","\"">>)) @@ (<<"g","r",".","p","o","s">> :> Str1(<<"N">>))
        @@ (<<"g","r",".","c","a","s","e">> :> [list |-> TRUE, v |-> <<<<"n","o","m">>, <<"a","c","c">>>>])

Ana2 == (<<"l","e","x">> :> Str1(<<"<","m",">">>)) @@ (<<"t","r","a","n","s","_","e","n">> :> Str1(<<"&">>))

AnaOptions == {<< >>, <<Ana1>>, <<Ana1, Ana2>>}

EscWords(maxWf) ==
  {[keys |-> {"wtype", "off_start", "off_end"} \cup kw \cup ka, wtype |-> <<"w","o","r","d">>,
    off_start |-> 0, off_end |-> 1, wf |-> wf, ana |-> ana] :
     kw \in {{"wf"}}, ka \in {{"ana"}},
     wf \in Texts(EscChars, maxWf), ana \in AnaOptions}
  \cup {Word(<<"w","o","r","d">>, 0, 1)}

InitEsc ==
  \E w \in EscWords(MaxWf) :
    \E more \in {<< >>, <<[w EXCEPT !.wf = <<"\"">>, !.keys = @ \cup {"wf"}]>>} :
      \E tree \in {NoTree, Tree(DictNode(<< <<<<"w","1">>, TermHits(<<Leaf(0, 1)>>)>> >>))} :
        InitWith(Response(<<Hit(Source(<<"a","b">>, <<w>> \o more), << >>, tree)>>))

SpecEsc == InitEsc /\ [][Next]_vars

(* one sentence with an inner_hits tree: one or two chains of keys down to *)
(* a matched word, well-formed or not                                      *)
ListKey == <<"[","]">>

PathKeys == {<<"w","0">>, <<"w","1">>, <<"i","n","n","e","r","_","h","i","t","s">>, <<"h","i","t","s">>, ListKey}

Paths(maxN) == UNION {[1..n -> PathKeys] : n \in 0..maxN}

WordsField == <<<<"f","i","e","l","d">>, StrNode(<<"w","o","r","d","s">>)>>

Leaves ==
  {Leaf(o, a) : o \in 0..1, a \in {None, 0}}
  \cup {DictNode(<<WordsField>>),
        DictNode(<<WordsField, <<<<"o","f","f","s","e","t">>, IntNode(0)>>,
                   <<<<"_","n","e","s","t","e","d">>, DictNode(<< <<<<"f","i","e","l","d">>, StrNode(<<"a","n","a">>)>> >>)>> >>),
        DictNode(<<WordsField, <<<<"o","f","f","s","e","t">>, IntNode(0)>>, <<<<"_","n","e","s","t","e","d">>, IntNode(0)>> >>),
        DictNode(<<WordsField, <<<<"o","f","f","s","e","t">>, IntNode(0)>>,
                   <<<<"_","n","e","s","t","e","d">>, DictNode(<< <<<<"f","i","e","l","d">>, StrNode(<<"l","e","x">>)>> >>)>> >>)}

RECURSIVE Chain(_, _)
Chain(path, leaf) ==
  IF path = << >> THEN leaf
  ELSE IF Head(path) = ListKey THEN ListNode(<<Chain(Tail(path), leaf)>>)
  ELSE DictNode(<< <<Head(path), Chain(Tail(path), leaf)>> >>)

(* two subtrees side by side: under two keys of one mapping, or in a list *)
Beside(c1, c2) ==
  IF /\ c1.kind = "dict" /\ c2.kind = "dict"
     /\ Len(c1.items) = 1 /\ Len(c2.items) = 1
     /\ c1.items[1][1] # c2.items[1][1]
    THEN {DictNode(c1.items \o c2.items), ListNode(<<c1, c2>>)}
    ELSE {ListNode(<<c1, c2>>)}

Trees(maxPath) ==
  LET first == {Chain(path, leaf) : path \in Paths(maxPath), leaf \in Leaves}
      second == {Chain(path, Leaf(1, None)) : path \in Paths(1)}
  IN first \cup UNION {Beside(c1, c2) : c1 \in first, c2 \in second}

InitTree ==
  \E node \in Trees(MaxPath) :
    InitWith(Response(<<Hit(Source(<<"a">>, WordsOf(<< <<0, 1>> >>)), << >>, Tree(node))>>))

SpecTree == InitTree /\ [][Next]_vars

(* a batch of up to MaxHits hits, each complete or lacking something *)
GoodSource == Source(<<"a">>, WordsOf(<< <<0, 1>> >>))

GoodHit == Hit(GoodSource, <<<<"<","e","m",">","a","<","/","e","m",">">>>>, NoTree)

Without(hit, key) == [hit EXCEPT !.source.keys = @ \ {key}]

HitOptions ==
  {GoodHit,
   [GoodHit EXCEPT !.keys = @ \ {"_source"}],
   Without(GoodHit, "lang"), Without(GoodHit, "doc_id"),
   Without(GoodHit, "text"), Without(GoodHit, "words"),
   [GoodHit EXCEPT !.source.text = << >>],
   [GoodHit EXCEPT !.source.doc_id = 1],
   [GoodHit EXCEPT !.source.words = <<[keys |-> {"wf"}, wtype |-> << >>, off_start |-> 0,
                                       off_end |-> 0, wf |-> <<"a">>, ana |-> << >>]>>],
   [GoodHit EXCEPT !.keys = @ \cup {"relations_satisfied"}, !.relations_satisfied = FALSE]}

HitLists(maxHits) == UNION {[1..n -> HitOptions] : n \in 0..maxHits}

Responses(maxHits, maxTotal) ==
  {[keys |-> ks, hits |-> [keys |-> hk, total |-> total, hits |-> hits], n_docs |-> 1] :
     ks \in {{"hits", "aggregations"}, {"hits"}, {}},
     hk \in {{"total", "hits"}, {"hits"}, {"total"}},
     total \in 0..maxTotal,
     hits \in HitLists(maxHits)}

InitBatch == \E resp \in Responses(MaxHits, MaxTotal) : InitWith(resp)

SpecBatch == InitBatch /\ [][Next]_vars

(***************************************************************************)
(* Properties of the sweep.                                                *)
(***************************************************************************)
InSentence == pc \in {"sweep", "close"}

(* the pieces emitted so far for the sentence in progress *)
Emitted == Concat(chars)

FullContexts == {k \in 1..Len(result.contexts) : result.contexts[k].full}

(* the number of open wrappers after the pieces, or None when a close tag  *)
(* has no open wrapper or an open tag finds a wrapper already open         *)
RECURSIVE Depth(_, _)
Depth(pieces, d) ==
  IF pieces = << >> THEN d
  ELSE IF Head(pieces).t = "open"
    THEN IF d = 0 THEN Depth(Tail(pieces), 1) ELSE None
  ELSE IF Head(pieces).t = "close"
    THEN IF d = 1 THEN Depth(Tail(pieces), 0) ELSE None
  ELSE Depth(Tail(pieces), d)

(* C2: the wrapper open and close tags are stack-balanced.  At every step  *)
(* of the sweep the tags emitted so far close only an open wrapper and     *)
(* open a wrapper only when none is open, a wrapper is open exactly when   *)
(* the open set is not empty, and in every finished sentence every wrapper *)
(* is closed.                                                              *)
ProperNesting ==
  /\ InSentence => Depth(Emitted, 0) = (IF curWords # {} THEN 1 ELSE 0)
  /\ \A k \in FullContexts : Depth(result.contexts[k].text, 0) = 0

(* a finished sentence with two wrappers, the last one closed at the end   *)
(* of the text                                                             *)
ProperNestingWitness ==
  \E k \in FullContexts :
    LET text == result.contexts[k].text
    IN /\ Cardinality({j \in 1..Len(text) : text[j].t = "open"}) >= 2
       /\ text[Len(text)].t = "close"
       /\ text[1].t = "char"

WordTokens(s) ==
  {iw \in 0..(Len(s.source.words) - 1) :
     LET word == s.source.words[iw + 1]
     IN /\ {"wtype", "off_start", "off_end"} \subseteq word.keys
        /\ word.wtype = <<"w","o","r","d">>
        /\ 0 <= word.off_start
        /\ word.off_start <= word.off_end
        /\ word.off_end <= Len(s.source.text)}

Covers(word, p) == word.off_start <= p /\ p < word.off_end

(* C10: after the events at position p are applied, the open set holds a   *)
(* token id exactly when the token's span covers p.                        *)
OpenSetTracksSpans ==
  (InSentence /\ i > 0) =>
    \A iw \in WordTokens(CurHit) :
      (WordNo(iHit, iw) \in curWords) <=> Covers(CurHit.source.words[iw + 1], i - 1)

ExpectedClasses(wn) ==
  IF wn \in DOMAIN matchWordOffsets
    THEN {<<"w","m","a","t","c","h">>} \cup {<<"w","m","a","t","c","h","_">> \o t : t \in {pair[1] : pair \in matchWordOffsets[wn]}}
    ELSE {}

(* the highlighted fragments of the sentence in progress, in raw offsets *)
SmatchAt(offs) == {o \in DOMAIN offs : smatch \in offs[o]}

InFragment(p) ==
  \E a \in SmatchAt(offStarts), b \in SmatchAt(offEnds) : a <= p /\ p < b

(* the character at position p is inside a wrapper *)
Wrapped(p) == Depth(Concat(SubSeq(chars, 1, p + 1)), 0) = 1

MatchClassesOnly ==
  InSentence =>
    \A j \in 1..Len(Emitted) :
      Emitted[j].t = "open" =>
        \A wn \in DOMAIN Emitted[j].cls : Emitted[j].cls[wn] = ExpectedClasses(wn)

UnwrappedOutsideSpans ==
  InSentence =>
    \A p \in 0..(i - 1) :
      (/\ \A iw \in WordTokens(CurHit) : ~Covers(CurHit.source.words[iw + 1], p)
       /\ ~InFragment(p))
      => ~Wrapped(p)

(* C9: every id of a wrapper carries wmatch and one wmatch_<t> per term id *)
(* paired with it in the match-offset map, and no match class when it is   *)
(* not in the map; text in no token span and no highlighted fragment is in *)
(* no wrapper.                                                             *)
MatchClasses == MatchClassesOnly /\ UnwrappedOutsideSpans


(***************************************************************************)
(* Properties of the text of a finished sentence.                          *)
(***************************************************************************)
(* the text without the wrapper tags, each newline marker read as a newline *)
Unmark(pieces) ==
  Concat([k \in 1..Len(pieces) |->
            IF pieces[k].t = "char" THEN <<pieces[k].c>>
            ELSE IF pieces[k].t \in {"br", "newline"} THEN <<NL>>
            ELSE << >>])

(* the text without any markup *)
Strip(pieces) ==
  Concat([k \in 1..Len(pieces) |-> IF pieces[k].t = "char" THEN <<pieces[k].c>> ELSE << >>])

(* C1, as amended: without the wrapper tags the output is the raw text     *)
(* with each newline replaced by a newline marker and every other          *)
(* character kept, in order.                                               *)
MarkupPreservesText ==
  \A k \in FullContexts : Unmark(result.contexts[k].text) = Hits[k].source.text

(* C1, as stated: without any markup the output is the raw text, newlines  *)
(* included.                                                               *)
StrippedEqualsRaw ==
  \A k \in FullContexts : Strip(result.contexts[k].text) = Hits[k].source.text

(* a finished sentence with a wrapper and a line break inside the text *)
MarkupPreservesTextWitness ==
  \E k \in FullContexts :
    LET text == result.contexts[k].text
    IN /\ \E j \in 1..Len(text) : text[j].t = "br"
       /\ \E j \in 1..Len(text) : text[j].t = "open"
       /\ \E j \in 1..Len(text) : text[j].t = "char"

(***************************************************************************)
(* Properties of the popup attribute.                                      *)
(***************************************************************************)
Entity(c) ==
  CASE c = "\"" -> <<"&","q","u","o","t",";">>
    [] c = "<" -> <<"&","l","t",";">>
    [] c = ">" -> <<"&","g","t",";">>
    [] OTHER -> <<c>>

EscapeOnce(s) == Concat([k \in 1..Len(s) |-> Entity(s[k])])

OpenPieces == {j \in 1..Len(Emitted) : Emitted[j].t = "open"}

(* C7: the data-ana attribute of every wrapper is the popup string with    *)
(* each quote, less-than and greater-than replaced by its entity once; it  *)
(* holds none of these characters and no double-escaped entity, and        *)
(* escaping it again changes nothing.                                      *)
EscapedOnce ==
  InSentence =>
    \A j \in OpenPieces :
      LET popup == RawPopups(CurHit.source.words, Emitted[j].words, matchWordOffsets)
          ana == Emitted[j].ana
      IN /\ ana = EscapeOnce(popup)
         /\ ~IsSubstr(<<"&","a","m","p",";">>, ana)
         /\ \A k \in 1..Len(ana) : ana[k] \notin {"\"", "<", ">"}
         /\ EscapeOnce(ana) = ana

(* a wrapper of two words whose popups hold a quote, an ampersand and a    *)
(* matching analysis                                                       *)
EscapedOnceWitness ==
  /\ InSentence
  /\ \E j \in OpenPieces :
       /\ Len(Emitted[j].words) = 2
       /\ IsSubstr(<<"&","q","u","o","t",";","&","l","t",";","/","s","p","a","n">>, Emitted[j].ana)
       /\ IsSubstr(<<"p","o","p","u","p","_","m","a","t","c","h">>, Emitted[j].ana)
       /\ IsSubstr(<<">","&","<">>, RawPopups(CurHit.source.words, Emitted[j].words, matchWordOffsets))

(***************************************************************************)
(* Properties of add_highlighted_offsets.                                  *)
(***************************************************************************)
ScannedHighlight == pc = "words" /\ iWord = 0

(* C8: for a highlighted text made from the raw text by inserting <em> and *)
(* </em> around non-nested fragments, the smatch open events are the       *)
(* fragments' start offsets and the smatch close events their end offsets  *)
(* in the raw text.                                                        *)
HighlightOffsets ==
  ScannedHighlight =>
    \A frags \in FragLists(Len(CurHit.source.text), MaxFrags, TRUE) :
      Mark(CurHit.source.text, frags) = HighlightedText(CurHit) =>
        /\ SmatchAt(offStarts) = {frags[k][1] : k \in 1..Len(frags)}
        /\ SmatchAt(offEnds) = {frags[k][2] : k \in 1..Len(frags)}

(* two fragments, the second one closed by the last characters of the text *)
HighlightOffsetsWitness ==
  /\ ScannedHighlight
  /\ LET hl == HighlightedText(CurHit)
     IN /\ Len(hl) >= 5
        /\ SubSeq(hl, Len(hl) - 4, Len(hl)) = EmClose
  /\ Cardinality(SmatchAt(offStarts)) = 2
  /\ Cardinality(SmatchAt(offEnds)) = 2
  /\ Len(CurHit.source.text) \in SmatchAt(offEnds)

(***************************************************************************)
(* Properties of retrieve_highlighted_words.                               *)
(***************************************************************************)
(* the matched-word mappings of a tree, each with the keys on its path *)
RECURSIVE LeafPaths(_, _)
LeafPaths(node, keys) ==
  IF node.kind = "list"
    THEN UNION {LeafPaths(node.items[j][2], keys) : j \in 1..Len(node.items)}
  ELSE IF node.kind # "dict" THEN {}
  ELSE IF HasKey(node, <<"i","n","n","e","r","_","h","i","t","s">>)
    THEN LeafPaths(Get(node, <<"i","n","n","e","r","_","h","i","t","s">>), Append(keys, <<"i","n","n","e","r","_","h","i","t","s">>))
  ELSE IF HasKey(node, <<"f","i","e","l","d">>) /\ Get(node, <<"f","i","e","l","d">>) = StrNode(<<"w","o","r","d","s">>)
    THEN {[keys |-> keys, leaf |-> node]}
  ELSE UNION {LeafPaths(node.items[j][2], Append(keys, node.items[j][1]))
              : j \in 1..Len(node.items)}

TermKeys(keys) == SelectSeq(keys, rxQueryWord)

(* the term scope of a path: its first term key, w0 without one *)
Scope(keys) == IF TermKeys(keys) = << >> THEN <<"w","0">> ELSE TermKeys(keys)[1]

OneTerm(keys) == \A a, b \in 1..Len(TermKeys(keys)) : TermKeys(keys)[a] = TermKeys(keys)[b]

TokenOf(leaf) == <<"w">> \o Str(iHit) \o <<"_">> \o StrOf(Get(leaf, <<"o","f","f","s","e","t">>))

AnaOf(leaf) ==
  IF /\ HasKey(leaf, <<"_","n","e","s","t","e","d">>)
     /\ Get(leaf, <<"_","n","e","s","t","e","d">>).kind = "dict"
     /\ HasKey(Get(leaf, <<"_","n","e","s","t","e","d">>), <<"f","i","e","l","d">>)
     /\ Get(Get(leaf, <<"_","n","e","s","t","e","d">>), <<"f","i","e","l","d">>) = StrNode(<<"a","n","a">>)
     /\ HasKey(Get(leaf, <<"_","n","e","s","t","e","d">>), <<"o","f","f","s","e","t">>)
    THEN Get(Get(leaf, <<"_","n","e","s","t","e","d">>), <<"o","f","f","s","e","t">>).n
    ELSE None

(* the (token, pair) records of a match-offset map *)
Records(offsets) ==
  UNION {{<<tok, pair>> : pair \in offsets[tok]} : tok \in DOMAIN offsets}

Retrieved == pc \in {"words", "sweep", "close"}

TokensUnder(node) ==
  {TokenOf(p.leaf) : p \in {q \in LeafPaths(node, << >>) : HasKey(q.leaf, <<"o","f","f","s","e","t">>)}}

(* C3: every pair recorded for a token carries the term id of the path of  *)
(* a matched word with that token: the first term key on the path, where   *)
(* no other term key follows; inner_hits on the path changes nothing.  So  *)
(* of two term keys whose subtrees reference disjoint tokens, a token      *)
(* under one never gets the other's term id.                               *)
TermScoping ==
  Retrieved =>
    LET tree == HitNode(CurHit)
        live == {p \in LeafPaths(tree, << >>) : HasKey(p.leaf, <<"o","f","f","s","e","t">>) /\ OneTerm(p.keys)}
        top == Get(tree, <<"i","n","n","e","r","_","h","i","t","s">>)
    IN /\ Records(matchWordOffsets)
            = {<<TokenOf(p.leaf), <<Scope(p.keys), AnaOf(p.leaf)>> >> : p \in live}
       /\ (top.kind = "dict" /\ ~HasKey(top, <<"i","n","n","e","r","_","h","i","t","s">>)) =>
            \A a, b \in 1..Len(top.items) :
              (/\ rxQueryWord(top.items[a][1])
               /\ rxQueryWord(top.items[b][1])
               /\ top.items[a][1] # top.items[b][1]
               /\ TokensUnder(top.items[a][2]) \cap TokensUnder(top.items[b][2]) = {})
              => \A tok \in TokensUnder(top.items[a][2]) \cap DOMAIN matchWordOffsets :
                   \A pair \in matchWordOffsets[tok] : pair[1] # top.items[b][1]

(* two term keys side by side over different tokens, a different term key  *)
(* nested under the first one                                              *)
TermScopingWitness ==
  /\ Retrieved
  /\ LET top == Get(HitNode(CurHit), <<"i","n","n","e","r","_","h","i","t","s">>)
     IN /\ top.kind = "dict"
        /\ Len(top.items) = 2
        /\ top.items[1][1] = <<"w","0">>
        /\ top.items[2][1] = <<"w","1">>
        /\ \E p \in LeafPaths(top, << >>) : ~OneTerm(p.keys)
  /\ DOMAIN matchWordOffsets = {<<"w","0","_","1">>}
  /\ matchWordOffsets[<<"w","0","_","1">>] = {<<<<"w","1">>, None>>}

(* C4: the extractor never fails, whatever the tree. *)
ExtractorNeverFails == ~(pc = "raised" /\ err.at = "retrieve_highlighted_words")

(***************************************************************************)
(* Properties of the batch.                                                *)
(***************************************************************************)
(* C5: no hit, however incomplete, ends the batch in an error; the batch   *)
(* returns one record per hit.                                             *)
BatchNeverFails ==
  /\ pc # "raised"
  /\ (pc = "done" /\ "contexts" \in result.keys) => Len(result.contexts) = Len(Hits)

(* C6: when the response reports zero total hits, process_sent_json        *)
(* returns the 'nothing found' sentinel.                                   *)
ZeroHitsNothingFound ==
  (/\ pc = "done"
   /\ "hits" \in response.keys
   /\ "total" \in response.hits.keys
   /\ response.hits.total = 0)
  => /\ result.message = "Nothing found."
     /\ result.n_occurrences = 0
     /\ result.n_sentences = 0
     /\ result.n_docs = 0
     /\ "contexts" \notin result.keys
     /\ result.contexts = << >>

====
